---------------------------- MODULE Spec2Model ----------------------------
(* Model promotion of jesrav/mlops-batch-project-wandb:                    *)
(* src/models/promote_model.py (the two gates, the controller main and     *)
(* log_promotion_status) over a model registry with a "latest" and a       *)
(* "prod" alias, with the training job of src/models/train_and_evaluate.py *)
(* logging new model versions while promotion runs execute.                *)
EXTENDS Integers, Sequences, FiniteSets, TLC

(* ------------------------------ bounds -------------------------------- *)

\* Model versions the registry can hold.
MaxVersion == 2

\* Rows of the hold out test set.
NumRows == 2

\* Promotion runs that may execute concurrently.
Runs == {"r1", "r2"}

\* Values a target, a prediction and the configured threshold may take.
TargetVals == {1, 2}
PredVals == {0, 1, 2}
Thresholds == {1, 2}

\* Values a prediction may take in the gate specification.
GatePredVals == {-1, 0, 1, 3}

Versions == 1..MaxVersion
Rows == 1..NumRows
TestSets == [Rows -> TargetVals]
PredVectors == [Rows -> PredVals]

\* The models the training job may log: one prediction for the first row and
\* one for all the others.
ModelCatalog == {p \in PredVectors : \A i \in Rows \ {1} : p[i] = p[NumRows]}
GatePredVectors == [Rows -> GatePredVals]

\* The test set drawn by the controller specification.
ControllerTestSets == {[i \in Rows |-> t] : t \in TargetVals}

NoModel == 0
Absent == << >>

VARIABLES
    test_data,   \* the "latest" test data artifact: targets per row, or Absent
    max_mae,     \* config["main"]["max_mae_to_promote"]
    predictor,   \* version -> predictions of that model on the test rows
    latest,      \* number of model versions logged so far
    aliases,     \* version -> set of aliases of the model artifact
    run,         \* run -> the locals of that execution of main
    gate         \* the gate objects of the gate specification

vars == <<test_data, max_mae, predictor, latest, aliases, run, gate>>

(* --------------------------- pure functions --------------------------- *)

Abs(x) == IF x < 0 THEN -x ELSE x

RECURSIVE SumAbsErr(_, _, _)
SumAbsErr(y_true, y_pred, n) ==
    IF n = 0 THEN 0
    ELSE Abs(y_true[n] - y_pred[n]) + SumAbsErr(y_true, y_pred, n - 1)

\* RegressionEvaluation(...).get_metrics()["mae"]: the mean absolute error,
\* kept exact as the fraction <<sum of absolute errors, number of rows>>.
MeanAbsoluteError(y_true, y_pred) == <<SumAbsErr(y_true, y_pred, Len(y_true)), Len(y_true)>>

\* a < b on fractions with positive denominators.
FracLess(a, b) == a[1] * b[2] < b[1] * a[2]

FracOfInt(k) == <<k, 1>>

Min(s) == CHOOSE x \in {s[i] : i \in DOMAIN s} : \A j \in DOMAIN s : x <= s[j]

\* SingleModelTest._calc_model_mae / ChallengerModelTest._calc_model_mae
calc_model_mae(predictions, y_true) == MeanAbsoluteError(y_true, predictions)

model_has_ok_mae_strictness_bug(model_mae, threshold) == ~FracLess(FracOfInt(threshold), model_mae)
\* SingleModelTest._model_has_ok_mae
model_has_ok_mae(model_mae, threshold) == FracLess(model_mae, FracOfInt(threshold))

\* SingleModelTest._predictions_all_positive
predictions_all_positive(predictions) == Min(predictions) > 0

\* SingleModelTest.model_passes_tests
model_passes_tests(model_mae, threshold, predictions) ==
    /\ model_has_ok_mae(model_mae, threshold)
    /\ predictions_all_positive(predictions)

\* Truth value of the bound method object self._model_has_ok_mae, which
\* SingleModelTest.message tests without calling it.
bound_method_truthy == TRUE

\* SingleModelTest.message
single_message(model_mae, threshold, predictions) ==
    [mae_message |-> IF bound_method_truthy THEN "under the max threshold"
                     ELSE "not below the max threshold",
     mae |-> model_mae,
     threshold |-> threshold,
     edge_case_message |-> IF predictions_all_positive(predictions)
                           THEN "passes all edge cases"
                           ELSE "does not pass all edge cases"]

challenger_model_is_better_tie_bug(challenger_mae, current_mae) == ~FracLess(current_mae, challenger_mae)
\* ChallengerModelTest.challenger_model_is_better
challenger_model_is_better(challenger_mae, current_mae) == FracLess(challenger_mae, current_mae)

\* ChallengerModelTest.message
challenger_message(challenger_mae, current_mae) ==
    [mae_message |-> IF challenger_model_is_better(challenger_mae, current_mae)
                     THEN "better than the current model"
                     ELSE "worse than the current model",
     challenger_mae |-> challenger_mae,
     current_mae |-> current_mae]

\* log_promotion_status: the alert it sends.
log_promotion_status(model_version, additional_info, model_to_be_promoted) ==
    IF model_to_be_promoted
    THEN [title |-> "promoted", version |-> model_version,
          text |-> additional_info, level |-> "INFO"]
    ELSE [title |-> "not promoted", version |-> model_version,
          text |-> additional_info, level |-> "WARN"]


(* ------------------------------ registry ------------------------------ *)

\* The versions whose artifact carries the production alias.
ProdHolders(al) == {v \in Versions : "prod" \in al[v]}

\* get_model(..., model_version="prod"): the version found, or NoModel when
\* the lookup raises ArtifactDoesNoteExistError.
get_prod_model(al) ==
    IF ProdHolders(al) = {} THEN NoModel ELSE CHOOSE v \in ProdHolders(al) : TRUE

\* The holders a run expects from what its incumbent lookup returned.
ExpectedHolders(current) == IF current = NoModel THEN {} ELSE {current}

\* Outcome of the store's promote: a conflict when the production alias is
\* no longer where the run's lookup found it.
promote_outcome(al, current) ==
    IF ProdHolders(al) = ExpectedHolders(current) THEN "success" ELSE "conflict"

promote_aliases_no_unassign(al, challenger) ==
    [v \in Versions |-> IF v = challenger THEN al[v] \cup {"prod"} ELSE al[v]]
\* The alias reassignment of a successful promote, in one step: the
\* challenger gains "prod" and every other version loses it.
promote_aliases(al, challenger) ==
    [v \in Versions |-> IF v = challenger THEN al[v] \cup {"prod"}
                        ELSE al[v] \ {"prod"}]

(* ----------------------------- controller ----------------------------- *)

NewRun ==
    [pc |-> "start", abort_reason |-> "none",
     data_loaded |-> FALSE,
     challenger |-> NoModel, challenger_aliases |-> {},
     looked_up |-> FALSE, current |-> NoModel,
     single_model_test |-> << >>, challenger_model_test |-> << >>,
     decided |-> FALSE, model_to_be_promoted |-> FALSE,
     promote_result |-> "none", alerts |-> << >>]

Set(r, upd) == run' = [run EXCEPT ![r] = upd]

Shared == <<test_data, max_mae, predictor, latest, aliases, gate>>

test_data_load_raises_swallowed(artifact) == FALSE
\* main, lines 137-141: read_dataframe_artifact raises when the artifact does
\* not exist, and main does not catch it.
test_data_load_raises(artifact) == artifact = Absent

\* main, lines 136-141: read_dataframe_artifact(test data, "latest").
LoadTestData(r) ==
    /\ run[r].pc = "start"
    /\ IF test_data_load_raises(test_data)
       THEN Set(r, [run[r] EXCEPT !.pc = "aborted", !.abort_reason = "test_data"])
       ELSE Set(r, [run[r] EXCEPT !.pc = "data", !.data_loaded = TRUE])
    /\ UNCHANGED Shared

already_prod_unchecked(artifact_aliases) == FALSE
\* main, line 149: "prod" in loaded_model_challenger.wandb_artifact.aliases
already_prod(artifact_aliases) == "prod" \in artifact_aliases

\* main, lines 143-152: get_model("latest") and the already-promoted check.
LoadChallenger(r) ==
    /\ run[r].pc = "data"
    /\ IF latest = 0
       THEN Set(r, [run[r] EXCEPT !.pc = "aborted", !.abort_reason = "challenger"])
       ELSE IF already_prod(aliases[latest])
       THEN Set(r, [run[r] EXCEPT !.pc = "aborted", !.abort_reason = "already_prod",
                                  !.challenger = latest,
                                  !.challenger_aliases = aliases[latest]])
       ELSE Set(r, [run[r] EXCEPT !.pc = "challenger",
                                  !.challenger = latest,
                                  !.challenger_aliases = aliases[latest]])
    /\ UNCHANGED Shared

current_lookup_pc_uncaught(found) == IF found = NoModel THEN "aborted" ELSE "current"
\* main, lines 155-162: the try/except around the lookup; the run goes on
\* whether or not a production model was found.
current_lookup_pc(found) == "current"

\* main, lines 154-162: get_model("prod"), None when it does not exist.
LoadCurrent(r) ==
    /\ run[r].pc = "challenger"
    /\ LET found == get_prod_model(aliases)
       IN Set(r, [run[r] EXCEPT !.pc = current_lookup_pc(found),
                               !.abort_reason = IF current_lookup_pc(found) = "aborted"
                                                THEN "current" ELSE @,
                               !.looked_up = TRUE,
                               !.current = found])
    /\ UNCHANGED Shared

\* SingleModelTest.__init__
SingleModelTest(predictions, y_true, threshold) ==
    [predictions |-> predictions,
     model_mae |-> calc_model_mae(predictions, y_true),
     max_mae |-> threshold]

\* ChallengerModelTest.__init__
ChallengerModelTest(pred_challenger, pred_current, y_true) ==
    [model_challenger_mae |-> calc_model_mae(pred_challenger, y_true),
     model_current_mae |-> calc_model_mae(pred_current, y_true)]

\* main, lines 164-171
RunSingleModelTest(r) ==
    /\ run[r].pc = "current"
    /\ Set(r, [run[r] EXCEPT !.pc = "tested",
                 !.single_model_test =
                     <<SingleModelTest(predictor[run[r].challenger], test_data, max_mae)>>])
    /\ UNCHANGED Shared

SinglePasses(t) == model_passes_tests(t.model_mae, t.max_mae, t.predictions)
ChallengerBetter(t) == challenger_model_is_better(t.model_challenger_mae, t.model_current_mae)

\* main, line 174
decision_no_incumbent(single) == SinglePasses(single)

decision_with_incumbent_or(single, chall) == SinglePasses(single) \/ ChallengerBetter(chall)
\* main, lines 195-198
decision_with_incumbent(single, chall) == SinglePasses(single) /\ ChallengerBetter(chall)

\* main, lines 173-174: no current production model.
DecideSingleGateOnly(r) ==
    /\ run[r].pc = "tested"
    /\ run[r].current = NoModel
    /\ Set(r, [run[r] EXCEPT !.pc = "decided", !.decided = TRUE,
                 !.model_to_be_promoted = decision_no_incumbent(run[r].single_model_test[1])])
    /\ UNCHANGED Shared

\* main, lines 185-198: the challenger comparison and the decision.
DecideDualGate(r) ==
    /\ run[r].pc = "tested"
    /\ run[r].current # NoModel
    /\ LET t == ChallengerModelTest(predictor[run[r].challenger],
                                    predictor[run[r].current], test_data)
       IN Set(r, [run[r] EXCEPT !.pc = "decided", !.decided = TRUE,
                    !.challenger_model_test = <<t>>,
                    !.model_to_be_promoted =
                        decision_with_incumbent(run[r].single_model_test[1], t)])
    /\ UNCHANGED Shared

\* main, lines 175-176 and 199-200: loaded_model_challenger.promote_to_prod(),
\* whose result main does not look at.
PromoteToProd(r) ==
    /\ run[r].pc = "decided"
    /\ run[r].model_to_be_promoted
    /\ LET outcome == promote_outcome(aliases, run[r].current)
       IN /\ aliases' = IF outcome = "success"
                        THEN promote_aliases(aliases, run[r].challenger)
                        ELSE aliases
          /\ Set(r, [run[r] EXCEPT !.pc = "promoted", !.promote_result = outcome])
    /\ UNCHANGED <<test_data, max_mae, predictor, latest, gate>>

\* main, lines 180-182 and 204-207: the text handed to log_promotion_status.
additional_info(r) ==
    LET s == run[r].single_model_test[1]
        sm == single_message(s.model_mae, s.max_mae, s.predictions)
    IN IF run[r].current = NoModel THEN <<sm>>
       ELSE <<sm, challenger_message(run[r].challenger_model_test[1].model_challenger_mae,
                                     run[r].challenger_model_test[1].model_current_mae)>>

\* main, lines 178-184 and 202-209
LogPromotionStatus(r) ==
    /\ \/ run[r].pc = "promoted"
       \/ run[r].pc = "decided" /\ ~run[r].model_to_be_promoted
    /\ Set(r, [run[r] EXCEPT !.pc = "done",
                 !.alerts = Append(@, log_promotion_status(run[r].challenger,
                                                          additional_info(r),
                                                          run[r].model_to_be_promoted))])
    /\ UNCHANGED Shared

\* train_and_evaluate.train_evaluate, lines 67-77: log_file logs the trained
\* model as a new version, which takes the "latest" alias.
TrainLog(p) ==
    /\ latest < MaxVersion
    /\ latest' = latest + 1
    /\ predictor' = [predictor EXCEPT ![latest + 1] = p]
    /\ aliases' = [v \in Versions |-> IF v = latest + 1 THEN {"latest"}
                                      ELSE aliases[v] \ {"latest"}]
    /\ UNCHANGED <<test_data, max_mae, run, gate>>

NoGate == [phase |-> "off"]

Init ==
    /\ test_data \in {Absent} \cup ControllerTestSets
    /\ max_mae \in Thresholds
    /\ latest \in {0, 1}
    /\ predictor \in [Versions -> ModelCatalog \cup {Absent}]
    /\ \A v \in Versions : (predictor[v] = Absent) <=> (v > latest)
    /\ aliases \in [Versions -> SUBSET {"latest", "prod"}]
    /\ \A v \in Versions : ("latest" \in aliases[v]) <=> (v = latest)
    /\ \A v \in Versions : v > latest => aliases[v] = {}
    /\ run = [r \in Runs |-> NewRun]
    /\ gate = NoGate

Next ==
    \/ \E r \in Runs : LoadTestData(r)
    \/ \E r \in Runs : LoadChallenger(r)
    \/ \E r \in Runs : LoadCurrent(r)
    \/ \E r \in Runs : RunSingleModelTest(r)
    \/ \E r \in Runs : DecideSingleGateOnly(r)
    \/ \E r \in Runs : DecideDualGate(r)
    \/ \E r \in Runs : PromoteToProd(r)
    \/ \E r \in Runs : LogPromotionStatus(r)
    \/ \E p \in ModelCatalog : TrainLog(p)

Spec == Init /\ [][Next]_vars

\* The steps of one run of main.
RunStep(r) ==
    \/ LoadTestData(r) \/ LoadChallenger(r) \/ LoadCurrent(r)
    \/ RunSingleModelTest(r) \/ DecideSingleGateOnly(r) \/ DecideDualGate(r)
    \/ PromoteToProd(r) \/ LogPromotionStatus(r)

(* --------------------------- gate specification ------------------------ *)
(* The two gate classes on their own, over every test set, threshold and  *)
(* pair of prediction vectors of the bounded sets.                        *)

\* SingleModelTest: the object, its model_passes_tests and its message.
GateSingleModelTest ==
    /\ gate.phase = "on"
    /\ gate.single = << >>
    /\ LET t == SingleModelTest(gate.pred_challenger, test_data, max_mae)
       IN gate' = [gate EXCEPT !.single =
                      <<[test |-> t,
                         model_passes_tests |->
                             model_passes_tests(t.model_mae, t.max_mae, t.predictions),
                         message |-> single_message(t.model_mae, t.max_mae, t.predictions)]>>]
    /\ UNCHANGED <<test_data, max_mae, predictor, latest, aliases, run>>

\* ChallengerModelTest: the object, its challenger_model_is_better and message.
GateChallengerModelTest ==
    /\ gate.phase = "on"
    /\ gate.challenger = << >>
    /\ LET t == ChallengerModelTest(gate.pred_challenger, gate.pred_current, test_data)
       IN gate' = [gate EXCEPT !.challenger =
                      <<[test |-> t,
                         challenger_model_is_better |->
                             challenger_model_is_better(t.model_challenger_mae,
                                                        t.model_current_mae),
                         message |-> challenger_message(t.model_challenger_mae,
                                                        t.model_current_mae)]>>]
    /\ UNCHANGED <<test_data, max_mae, predictor, latest, aliases, run>>

GateInit ==
    /\ test_data \in TestSets
    /\ max_mae \in Thresholds
    /\ latest = 0
    /\ predictor = [v \in Versions |-> Absent]
    /\ aliases = [v \in Versions |-> {}]
    /\ run = [r \in Runs |-> NewRun]
    /\ \E pc \in GatePredVectors, pi \in GatePredVectors :
          gate = [phase |-> "on", pred_challenger |-> pc, pred_current |-> pi,
                  single |-> << >>, challenger |-> << >>]

GateNext == GateSingleModelTest \/ GateChallengerModelTest

GateSpec == GateInit /\ [][GateNext]_vars

(* ------------------------------- claims ------------------------------- *)

\* What the claims say of the gates, stated on the numbers alone.
MaeBelow(mae, threshold) == mae[1] < threshold * mae[2]
MaeLess(a, b) == a[1] * b[2] < b[1] * a[2]
AllPositive(predictions) == \A i \in DOMAIN predictions : predictions[i] > 0
SingleVerdict(t) == MaeBelow(t.model_mae, t.max_mae) /\ AllPositive(t.predictions)
ChallengerVerdict(t) == MaeLess(t.model_challenger_mae, t.model_current_mae)
PromoteInvoked(r) == run[r].promote_result # "none"

\* C1: in every run that reached a decision, model_to_be_promoted is the
\* single-model verdict when no production model exists and the AND of the
\* single-model and the challenger verdict when one exists; promote_to_prod is
\* invoked in exactly the runs whose decision is true.
C1_DecisionIsAndOfGates ==
    \A r \in Runs :
        /\ run[r].decided =>
              LET s == run[r].single_model_test[1]
              IN /\ run[r].current = NoModel =>
                        (run[r].model_to_be_promoted <=> SingleVerdict(s))
                 /\ run[r].current # NoModel =>
                        (run[r].model_to_be_promoted <=>
                            (SingleVerdict(s)
                             /\ ChallengerVerdict(run[r].challenger_model_test[1])))
        /\ PromoteInvoked(r) => run[r].decided /\ run[r].model_to_be_promoted
        /\ run[r].pc = "done" => (PromoteInvoked(r) <=> run[r].model_to_be_promoted)

\* Scenario D: single gate passes, challenger gate fails, nothing promoted.
C1_Witness ==
    \E r \in Runs :
        /\ run[r].pc = "done" /\ run[r].current # NoModel
        /\ SingleVerdict(run[r].single_model_test[1])
        /\ ~ChallengerVerdict(run[r].challenger_model_test[1])
        /\ ~run[r].model_to_be_promoted /\ ~PromoteInvoked(r)

\* C2: the single-model gate passes exactly when the mae is strictly below
\* the threshold and every prediction is strictly positive.
C2_SingleGateIff ==
    gate.phase = "on" /\ gate.single # << >> =>
        (gate.single[1].model_passes_tests <=>
            /\ MaeBelow(gate.single[1].test.model_mae, max_mae)
            /\ AllPositive(gate.pred_challenger))

\* The mae equals the threshold, every prediction is positive, the gate fails.
C2_Witness ==
    /\ gate.phase = "on" /\ gate.single # << >>
    /\ gate.single[1].test.model_mae[1] = max_mae * gate.single[1].test.model_mae[2]
    /\ AllPositive(gate.pred_challenger)
    /\ ~gate.single[1].model_passes_tests

\* C3: the challenger gate passes exactly when the challenger's mae is
\* strictly below the incumbent's on the same test data; the threshold plays
\* no part.
C3_ChallengerGateIff ==
    gate.phase = "on" /\ gate.challenger # << >> =>
        (gate.challenger[1].challenger_model_is_better <=>
            MaeLess(gate.challenger[1].test.model_challenger_mae,
                    gate.challenger[1].test.model_current_mae))

\* Equal maes of two different models: the challenger gate fails.
C3_Witness ==
    /\ gate.phase = "on" /\ gate.challenger # << >>
    /\ gate.pred_challenger # gate.pred_current
    /\ gate.challenger[1].test.model_challenger_mae = gate.challenger[1].test.model_current_mae
    /\ ~gate.challenger[1].challenger_model_is_better

\* C10: the single-model message says "under the max threshold" exactly when
\* model_mae < max_mae, and "not below the max threshold" otherwise.
C10_MessageAgreesWithMae ==
    gate.phase = "on" /\ gate.single # << >> =>
        /\ gate.single[1].message.mae_message = "under the max threshold"
              <=> MaeBelow(gate.single[1].test.model_mae, max_mae)
        /\ gate.single[1].message.mae_message = "not below the max threshold"
              <=> ~MaeBelow(gate.single[1].test.model_mae, max_mae)

NoSideEffect(r) ==
    /\ ~PromoteInvoked(r)
    /\ run[r].alerts = << >>

NoGateEvaluated(r) ==
    /\ run[r].single_model_test = << >>
    /\ run[r].challenger_model_test = << >>
    /\ ~run[r].decided

\* The step in which run r aborts leaves the aliases of the registry alone.
AbortKeepsAliases ==
    \A r \in Runs :
        run[r].pc # "aborted" /\ run'[r].pc = "aborted" => aliases' = aliases

\* C4: a run whose loaded challenger carries the production alias aborts
\* before any gate is evaluated, promotes nothing, emits no alert and leaves
\* the production alias as it was.
C4_AlreadyPromotedAborts ==
    /\ [](\A r \in Runs :
            run[r].challenger # NoModel /\ "prod" \in run[r].challenger_aliases =>
                /\ run[r].pc = "aborted"
                /\ NoGateEvaluated(r)
                /\ NoSideEffect(r))
    /\ [][AbortKeepsAliases]_vars

\* A run aborted on a challenger that another run had promoted before.
C4_Witness ==
    \E r \in Runs, q \in Runs :
        /\ run[r].pc = "aborted" /\ run[r].abort_reason = "already_prod"
        /\ run[q].promote_result = "success"
        /\ run[q].challenger = run[r].challenger

\* C5: at most one model version holds the production alias in every state,
\* two promotion runs interleaving in any way, and once a promotion has
\* succeeded exactly one version holds it.
C5_OneProdHolder ==
    /\ Cardinality(ProdHolders(aliases)) <= 1
    /\ (\E r \in Runs : run[r].promote_result = "success") =>
           Cardinality(ProdHolders(aliases)) = 1

\* Both runs promoted, the second taking the alias from the first's model.
C5_Witness ==
    /\ \A r \in Runs : run[r].promote_result = "success"
    /\ \E r \in Runs, q \in Runs :
          run[r].challenger # run[q].challenger /\ run[q].current = run[r].challenger

\* C6: a run whose promotion failed on a concurrent change of the production
\* alias is reported as a promotion conflict, neither as promoted nor as not
\* promoted.
C6_ConflictReported ==
    \A r \in Runs :
        run[r].pc = "done" /\ run[r].promote_result = "conflict" =>
            \A i \in DOMAIN run[r].alerts :
                run[r].alerts[i].title \notin {"promoted", "not promoted"}

\* The justification text main assembles, from the messages of the gates.
GateMessages(r) ==
    LET s == run[r].single_model_test[1]
        sm == single_message(s.model_mae, s.max_mae, s.predictions)
    IN IF run[r].current = NoModel THEN <<sm>>
       ELSE LET c == run[r].challenger_model_test[1]
            IN <<sm, challenger_message(c.model_challenger_mae, c.model_current_mae)>>

\* The alert of a completed run, but for what its severity stands for.
OneAlertWithGateText(r) ==
    /\ run[r].pc # "done" => run[r].alerts = << >>
    /\ run[r].pc = "done" =>
          /\ Len(run[r].alerts) = 1
          /\ run[r].alerts[1].level \in {"INFO", "WARN"}
          /\ run[r].alerts[1].text = GateMessages(r)
          /\ run[r].model_to_be_promoted => PromoteInvoked(r)

\* C7: a completed run has emitted exactly one alert, after the decision was
\* acted on; it is of severity info exactly when the challenger was promoted
\* in that run, and its body is the messages of the gates evaluated.
C7_OneAlertSeverityIsPromotion ==
    \A r \in Runs :
        /\ OneAlertWithGateText(r)
        /\ run[r].pc = "done" =>
              (run[r].alerts[1].level = "INFO" <=> run[r].promote_result = "success")

\* The part of C7 that holds of the code: the severity follows the decision.
AlertSeverityIsDecision ==
    \A r \in Runs :
        /\ OneAlertWithGateText(r)
        /\ run[r].pc = "done" =>
              (run[r].alerts[1].level = "INFO" <=> run[r].model_to_be_promoted)

NoIncumbentFound(r) == run[r].looked_up /\ run[r].current = NoModel

\* C8: a run whose production model lookup finds nothing goes on without an
\* incumbent: it never aborts, never runs the challenger gate, evaluates the
\* single-model gate alone, always has a next step until it is done, and ends
\* reported promoted or not promoted.
C8_MissingIncumbentRecovered ==
    \A r \in Runs :
        NoIncumbentFound(r) =>
            /\ run[r].pc # "aborted"
            /\ run[r].pc = "done" \/ ENABLED RunStep(r)
            /\ run[r].challenger_model_test = << >>
            /\ run[r].decided => run[r].single_model_test # << >>
            /\ run[r].pc = "done" =>
                  /\ Len(run[r].alerts) = 1
                  /\ run[r].alerts[1].title \in {"promoted", "not promoted"}
                  /\ Len(run[r].alerts[1].text) = 1

\* Scenario A: no incumbent, the single gate passes, the challenger is promoted.
C8_Witness ==
    \E r \in Runs :
        /\ NoIncumbentFound(r) /\ run[r].pc = "done"
        /\ run[r].promote_result = "success"
        /\ "prod" \in aliases[run[r].challenger]

LoadFailed(r) ==
    run[r].pc = "aborted" /\ run[r].abort_reason \in {"test_data", "challenger"}

\* C9: a run in which the test data or the challenger fails to load aborts
\* before any side effect (no promotion, no alert, aliases unchanged), and
\* promote_to_prod is invoked only after test data, challenger and incumbent
\* lookup have completed.
C9_LoadFailureAborts ==
    /\ [](\A r \in Runs :
            /\ test_data = Absent => run[r].pc \in {"start", "aborted"}
            /\ run[r].pc \notin {"start", "data", "aborted"} => run[r].challenger # NoModel
            /\ LoadFailed(r) => NoSideEffect(r) /\ NoGateEvaluated(r)
            /\ PromoteInvoked(r) =>
                  /\ run[r].data_loaded
                  /\ run[r].challenger # NoModel
                  /\ run[r].looked_up)
    /\ [][AbortKeepsAliases]_vars

\* One run aborted for want of a model; the other, started after a model was
\* logged, promoted it.
C9_Witness ==
    \E r \in Runs, q \in Runs :
        /\ LoadFailed(r) /\ run[r].abort_reason = "challenger"
        /\ run[q].promote_result = "success"

=============================================================================
